---- MODULE Spec2Model ----
(***************************************************************************)
(* recon.js: a command-line web reconnaissance run.                        *)
(*                                                                         *)
(* JavaScript strings whose content the code inspects (argument tokens,    *)
(* URLs, file names, header values, bodies, labels) are sequences of       *)
(* one-character strings, so that startsWith, split, parseInt, replace,    *)
(* toLowerCase and includes are computed character by character.  Strings  *)
(* the code only passes along (error messages, addresses) are TLA+ strings.*)
(***************************************************************************)
EXTENDS Integers, Sequences, FiniteSets, TLC

VARIABLES
    argv,          \* process.argv.slice(2)
    options,       \* the object parseArgs returns
    pc,            \* where main stands: which await it is suspended on
    exitCode,      \* process exit code; Running while the process lives
    stdout,        \* tags of the lines main printed
    report,        \* the report object of main
    httpRequests,  \* number of GET requests issued by axios.get
    dnsQueries,    \* sequence of the names handed to dns.resolve4
    clock,         \* the wall clock read by new Date(), in milliseconds
    dirs,          \* directories that exist on disk
    files,         \* paths written by fs.writeFileSync
    fsFailure,     \* the file-system call that threw, "none" otherwise
    probeDomain,   \* checkSubdomains: parameter domain
    probeWords,    \* checkSubdomains: parameter subdomains
    promises,      \* checkSubdomains: the promises of subdomains.map, by index
    answers,       \* what dns.resolve4 did for each candidate, by index
    settled,       \* the candidates' indices in the order their promises settled
    results,       \* checkSubdomains: the local list results
    probeStatus    \* checkSubdomains: "idle", "running", "returned" or "raised"

vars == <<argv, options, pc, exitCode, stdout, report, httpRequests, dnsQueries,
          clock, dirs, files, fsFailure, probeDomain, probeWords, promises,
          answers, settled, results, probeStatus>>

----------------------------------------------------------------------------
(* Bounds of the model *)

MaxArgs == 2        \* longest argument list parseArgs is applied to
MaxWords == 2       \* longest wordlist handed to checkSubdomains
MaxClock == 2       \* milliseconds the clock may advance during a run
MaxBodyParts == 2   \* fragments a response body is assembled from

----------------------------------------------------------------------------
(* JavaScript values and string primitives *)

\* null and undefined where a string is expected: a one-element sequence whose
\* element is not a single character, so it equals no string.
Null == <<"null">>

Truthy(s) == s # Null /\ s # <<>>

DigitVal == ("0" :> 0) @@ ("1" :> 1) @@ ("2" :> 2) @@ ("3" :> 3) @@ ("4" :> 4) @@
            ("5" :> 5) @@ ("6" :> 6) @@ ("7" :> 7) @@ ("8" :> 8) @@ ("9" :> 9)

DigitChar == <<"0", "1", "2", "3", "4", "5", "6", "7", "8", "9">>

LowerOf == [A |-> "a", B |-> "b", C |-> "c", D |-> "d", E |-> "e", F |-> "f",
            G |-> "g", H |-> "h", I |-> "i", J |-> "j", K |-> "k", L |-> "l",
            M |-> "m", N |-> "n", O |-> "o", P |-> "p", Q |-> "q", R |-> "r",
            S |-> "s", T |-> "t", U |-> "u", V |-> "v", W |-> "w", X |-> "x",
            Y |-> "y", Z |-> "z"]

RECURSIVE toLowerCase(_)
toLowerCase(s) ==
    IF s = <<>> THEN <<>>
    ELSE <<IF Head(s) \in DOMAIN LowerOf THEN LowerOf[Head(s)] ELSE Head(s)>>
            \o toLowerCase(Tail(s))

startsWith(s, p) == Len(s) >= Len(p) /\ SubSeq(s, 1, Len(p)) = p

\* s.includes(p)
includes(s, p) == \E i \in 0..(Len(s) - Len(p)) : SubSeq(s, i + 1, i + Len(p)) = p

\* position of the first character of s that is in set cs, Len(s) + 1 if none
RECURSIVE IndexOfAny(_, _, _)
IndexOfAny(s, cs, i) ==
    IF i > Len(s) THEN Len(s) + 1
    ELSE IF s[i] \in cs THEN i
    ELSE IndexOfAny(s, cs, i + 1)

\* s.split(c) for a one-character separator c
RECURSIVE split(_, _)
split(s, c) ==
    LET k == IndexOfAny(s, {c}, 1)
    IN  IF k > Len(s) THEN <<s>>
        ELSE <<SubSeq(s, 1, k - 1)>> \o split(SubSeq(s, k + 1, Len(s)), c)

\* s.replace(/[cs]/g, r): every character of the class cs becomes r
RECURSIVE replaceAll(_, _, _)
replaceAll(s, cs, r) ==
    IF s = <<>> THEN <<>>
    ELSE <<IF Head(s) \in cs THEN r ELSE Head(s)>> \o replaceAll(Tail(s), cs, r)

WhiteSpace == {" ", "\t", "\n"}

RECURSIVE TrimStart(_)
TrimStart(s) == IF s # <<>> /\ Head(s) \in WhiteSpace THEN TrimStart(Tail(s)) ELSE s

RECURSIVE TrimEnd(_)
TrimEnd(s) ==
    IF s # <<>> /\ s[Len(s)] \in WhiteSpace THEN TrimEnd(SubSeq(s, 1, Len(s) - 1)) ELSE s

\* number of leading decimal digits of s
RECURSIVE LeadingDigits(_)
LeadingDigits(s) ==
    IF s # <<>> /\ Head(s) \in DOMAIN DigitVal THEN 1 + LeadingDigits(Tail(s)) ELSE 0

\* value of a sequence of decimal digits
RECURSIVE DigitsValue(_)
DigitsValue(s) ==
    IF s = <<>> THEN 0 ELSE 10 * DigitsValue(SubSeq(s, 1, Len(s) - 1)) + DigitVal[s[Len(s)]]

\* parseInt(s, 10): leading white space is skipped, one sign is read, then the
\* longest run of digits; NaN when that run is empty.
parseInt(s) ==
    LET t == TrimStart(s)
        signed == t # <<>> /\ Head(t) \in {"+", "-"}
        u == IF signed THEN Tail(t) ELSE t
        n == LeadingDigits(u)
        v == DigitsValue(SubSeq(u, 1, n))
    IN  IF n = 0 THEN [nan |-> TRUE, n |-> 0]
        ELSE [nan |-> FALSE, n |-> IF signed /\ Head(t) = "-" THEN 0 - v ELSE v]

----------------------------------------------------------------------------
(* parseArgs *)

DEFAULT_TIMEOUT == 8000
DEFAULT_OUTPUT_DIR == <<".">>

TimeoutFlag == <<"-", "-", "t", "i", "m", "e", "o", "u", "t", "=">>
OutputFlag == <<"-", "-", "o", "u", "t", "p", "u", "t", "=">>
VerboseFlag == <<"-", "-", "v", "e", "r", "b", "o", "s", "e">>

DefaultOptions ==
    [target |-> Null, timeout |-> DEFAULT_TIMEOUT,
     outputDir |-> DEFAULT_OUTPUT_DIR, verbose |-> FALSE]

\* the body of the forEach callback, applied to one argument
parseArg(o, arg) ==
    IF startsWith(arg, TimeoutFlag) THEN
        LET p == parseInt(split(arg, "=")[2])
        IN  [o EXCEPT !.timeout = IF p.nan \/ p.n = 0 THEN DEFAULT_TIMEOUT ELSE p.n]
    ELSE IF startsWith(arg, OutputFlag) THEN
        LET d == split(arg, "=")[2]
        IN  [o EXCEPT !.outputDir = IF d = <<>> THEN DEFAULT_OUTPUT_DIR ELSE d]
    ELSE IF arg = VerboseFlag THEN [o EXCEPT !.verbose = TRUE]
    ELSE IF ~Truthy(o.target) THEN [o EXCEPT !.target = arg]
    ELSE o

RECURSIVE forEachArg(_, _)
forEachArg(args, o) ==
    IF args = <<>> THEN o ELSE forEachArg(Tail(args), parseArg(o, Head(args)))

parseArgs(args) == forEachArg(args, DefaultOptions)

----------------------------------------------------------------------------
(* buildTargetUrl and the URL class *)

HttpPrefix == <<"h", "t", "t", "p", ":", "/", "/">>
HttpsPrefix == <<"h", "t", "t", "p", "s", ":", "/", "/">>

\* /^https?:\/\//i.test(raw)
HasScheme(raw) ==
    \/ startsWith(toLowerCase(raw), HttpPrefix)
    \/ startsWith(toLowerCase(raw), HttpsPrefix)

\* code points that may not occur in the host of an http(s) URL
ForbiddenHostChars == {" ", "\t", "\n", "<", ">", "^", "|", "%", "[", "]", "@"}

RECURSIVE SkipSlashes(_)
SkipSlashes(s) ==
    IF s # <<>> /\ Head(s) \in {"/", "\\"} THEN SkipSlashes(Tail(s)) ELSE s

RECURSIVE ToDigits(_)
ToDigits(n) == IF n < 10 THEN <<DigitChar[n + 1]>> ELSE ToDigits(n \div 10) \o <<DigitChar[(n % 10) + 1]>>

DefaultPort(scheme) == IF scheme = <<"h", "t", "t", "p">> THEN 80 ELSE 443

\* new URL(s) for a string that starts with http:// or https:// in any case,
\* which is all buildTargetUrl and main hand to it.  Surrounding white space is
\* stripped, the scheme and the host are lower-cased, the slashes after the
\* scheme are skipped, the authority ends at the first / \ ? or #, a port is
\* the digits after the colon.  ok is FALSE where the constructor throws.
ParseUrl(s) ==
    LET t == TrimEnd(TrimStart(s))
        k == IndexOfAny(t, {":"}, 1)
        scheme == toLowerCase(SubSeq(t, 1, k - 1))
        r == SkipSlashes(SubSeq(t, k + 1, Len(t)))
        e == IndexOfAny(r, {"/", "\\", "?", "#"}, 1)
        authority == SubSeq(r, 1, e - 1)
        rest == SubSeq(r, e, Len(r))
        c == IndexOfAny(authority, {":"}, 1)
        host == toLowerCase(SubSeq(authority, 1, c - 1))
        port == SubSeq(authority, c + 1, Len(authority))
        portOk == LeadingDigits(port) = Len(port) /\ DigitsValue(port) <= 65535
        path == IF rest = <<>> THEN <<"/">>
                ELSE IF Head(rest) \in {"/", "\\"} THEN <<"/">> \o Tail(rest)
                ELSE <<"/">> \o rest
    IN  [ok |-> host # <<>> /\ portOk /\ \A i \in 1..Len(host) : host[i] \notin ForbiddenHostChars,
         scheme |-> scheme, hostname |-> host,
         port |-> IF port = <<>> \/ ~portOk \/ DigitsValue(port) = DefaultPort(scheme)
                  THEN <<>> ELSE ToDigits(DigitsValue(port)),
         path |-> path]

\* url.toString()
UrlToString(u) ==
    u.scheme \o <<":", "/", "/">> \o u.hostname
        \o (IF u.port = <<>> THEN <<>> ELSE <<":">> \o u.port) \o u.path

buildTargetUrl(raw) ==
    LET withScheme == IF HasScheme(raw) THEN raw ELSE HttpPrefix \o raw
        url == ParseUrl(withScheme)
    IN  IF url.ok THEN UrlToString(url) ELSE Null

----------------------------------------------------------------------------
(* nowIso and safeFilename *)

\* the decimal digits of n, padded with zeros on the left to width characters
RECURSIVE PadStart(_, _)
PadStart(d, width) == IF Len(d) >= width THEN d ELSE PadStart(<<"0">> \o d, width)

Pad(n, width) == PadStart(ToDigits(n), width)

\* new Date(t).toISOString() for an instant t, in milliseconds, of the first
\* minute of the epoch
toISOString(t) ==
    <<"1", "9", "7", "0", "-", "0", "1", "-", "0", "1", "T", "0", "0", ":", "0", "0", ":">>
        \o Pad(t \div 1000, 2) \o <<".">> \o Pad(t % 1000, 3) \o <<"Z">>

\* nowIso() when the clock reads t
nowIso(t) == replaceAll(toISOString(t), {":", "."}, "-")

safeFilename(s) == replaceAll(s, {":", "/", "\\", "?", "#", "&", "="}, "_")

\* path.join(dir, name): a leading "." directory is normalised away
pathJoin(dir, name) == IF dir = <<".">> THEN name ELSE dir \o <<"/">> \o name

ReportPrefix == <<"r", "e", "c", "o", "n", "-">>
ReportSuffix == <<".", "j", "s", "o", "n">>

\* the file name main builds when the clock reads t
ReportFilename(domain, t) ==
    ReportPrefix \o safeFilename(domain) \o <<"-">> \o nowIso(t) \o ReportSuffix

----------------------------------------------------------------------------
(* detectTechFromHeaders *)

\* headers[name], Null where the header is absent.  A headers object is a
\* function from header names to values.
Header(headers, name) == IF name \in DOMAIN headers THEN headers[name] ELSE Null

ServerLabel == <<"S", "e", "r", "v", "e", "r", ":", " ">>
PoweredByLabel == <<"X", "-", "P", "o", "w", "e", "r", "e", "d", "-", "B", "y", ":", " ">>
CookiesLabel == <<"C", "o", "o", "k", "i", "e", "s", ":", " ">>
WordPress == <<"W", "o", "r", "d", "P", "r", "e", "s", "s">>
NginxBody == <<"n", "g", "i", "n", "x", " ", "(", "b", "o", "d", "y", ")">>
CloudflareBody == <<"C", "l", "o", "u", "d", "f", "l", "a", "r", "e", " ", "(", "b", "o", "d", "y", ")">>
Joomla == <<"J", "o", "o", "m", "l", "a">>
Drupal == <<"D", "r", "u", "p", "a", "l">>

WpContentSig == <<"w", "p", "-", "c", "o", "n", "t", "e", "n", "t">>
WordpressSig == <<"w", "o", "r", "d", "p", "r", "e", "s", "s">>
NginxSig == <<"n", "g", "i", "n", "x">>
CloudflareSig == <<"c", "l", "o", "u", "d", "f", "l", "a", "r", "e">>
JoomlaSig == <<"j", "o", "o", "m", "l", "a">>
DrupalSig == <<"d", "r", "u", "p", "a", "l">>

\* if (cond) tech.push(label)
PushIf(cond, label) == IF cond THEN <<label>> ELSE <<>>

\* the set-cookie value is [isArray, v]: an array of cookie strings, as Node
\* delivers it, or one cookie string
FirstCookie(setCookie) ==
    LET cookies == IF setCookie.isArray THEN setCookie.v ELSE <<setCookie.v>>
    IN  split(cookies[1], ";")[1]

\* BodyTech with the rules chained by else: only the first match pushes
BodyTechFirstMatch(body) ==
    IF includes(body, WpContentSig) \/ includes(body, WordpressSig) THEN <<WordPress>>
    ELSE IF includes(body, NginxSig) THEN <<NginxBody>>
    ELSE IF includes(body, CloudflareSig) THEN <<CloudflareBody>>
    ELSE IF includes(body, JoomlaSig) THEN <<Joomla>>
    ELSE IF includes(body, DrupalSig) THEN <<Drupal>>
    ELSE <<>>

\* the pushes on the body, in source order
BodyTech(body) ==
    PushIf(includes(body, WpContentSig) \/ includes(body, WordpressSig), WordPress)
        \o PushIf(includes(body, NginxSig), NginxBody)
        \o PushIf(includes(body, CloudflareSig), CloudflareBody)
        \o PushIf(includes(body, JoomlaSig), Joomla)
        \o PushIf(includes(body, DrupalSig), Drupal)

\* the pushes on the headers, in source order
HeaderTech(headers) ==
    PushIf(Truthy(Header(headers, "server")), ServerLabel \o Header(headers, "server"))
        \o PushIf(Truthy(Header(headers, "x-powered-by")),
                  PoweredByLabel \o Header(headers, "x-powered-by"))
        \o (IF "set-cookie" \in DOMAIN headers
                /\ (headers["set-cookie"].isArray \/ headers["set-cookie"].v # <<>>)
            THEN <<CookiesLabel \o FirstCookie(headers["set-cookie"])>>
            ELSE <<>>)

\* undefined where an object is expected: equal to no headers object, whose
\* values are strings
Undefined == [undefined |-> TRUE]

\* headers is Undefined where report.http has no headers field (a failed
\* fetch); bodySnippet is Null where it has no contentSnippet field
detectTechFromHeaders(headers, bodySnippet) ==
    IF headers = Undefined THEN <<>>
    ELSE HeaderTech(headers)
            \o BodyTech(toLowerCase(IF Truthy(bodySnippet) THEN bodySnippet ELSE <<>>))

----------------------------------------------------------------------------
(* fetchHttp and resolveDomain: what they return *)

SnippetLimit == 8192

\* res.data is [isString, text]: axios hands over a string, or a parsed object
\* or buffer for which typeof is not 'string'
FetchOk(res) ==
    [kind |-> "ok", status |-> res.status, statusText |-> res.statusText,
     headers |-> res.headers,
     contentSnippet |-> IF res.data.isString
                        THEN SubSeq(res.data.text, 1,
                                    IF Len(res.data.text) < SnippetLimit
                                    THEN Len(res.data.text) ELSE SnippetLimit)
                        ELSE <<>>]

\* the catch branch of fetchHttp: err.message || String(err)
FetchError(message) == [kind |-> "error", error |-> message]

\* report.http.headers and report.http.contentSnippet
HttpHeaders(http) == IF http.kind = "ok" THEN http.headers ELSE Undefined
HttpSnippet(http) == IF http.kind = "ok" THEN http.contentSnippet ELSE Null

DnsOk(addresses) == [kind |-> "ok", a |-> addresses]

\* the catch branch of resolveDomain: err.code || err.message
DnsError(code) == [kind |-> "error", error |-> code]

NullResult == [kind |-> "null"]

----------------------------------------------------------------------------
(* checkSubdomains *)

SUBDOMAIN_WORDS ==
    << <<"w", "w", "w">>, <<"a", "p", "i">>, <<"a", "d", "m", "i", "n">>,
       <<"d", "e", "v">>, <<"t", "e", "s", "t">>, <<"m", "a", "i", "l">>,
       <<"f", "t", "p">>, <<"s", "t", "a", "g", "e">>, <<"b", "e", "t", "a">>,
       <<"p", "o", "r", "t", "a", "l">>, <<"s", "h", "o", "p">>, <<"m">> >>

\* `${sub}.${domain}`
Fqdn(sub, domain) == sub \o <<".">> \o domain

Pending == [state |-> "pending", hasValue |-> FALSE]

\* the value an async callback returns on a successful lookup
Hit(fqdn, addresses) == [subdomain |-> fqdn, a |-> addresses]

\* a promise fulfilled with a hit
FulfilledHit(hit) == [state |-> "fulfilled", hasValue |-> TRUE, value |-> hit]

\* a promise fulfilled with null: the catch branch of the callback
FulfilledNull == [state |-> "fulfilled", hasValue |-> FALSE]

NoAnswer == [kind |-> "none"]

\* for (const r of resolved) if (r) results.push(r), from index i on
RECURSIVE PushTruthy(_, _)
PushTruthy(resolved, i) ==
    IF i > Len(resolved) THEN <<>>
    ELSE (IF resolved[i].hasValue THEN <<resolved[i].value>> ELSE <<>>)
            \o PushTruthy(resolved, i + 1)

\* subdomains.map(...) with a callback that yields v for every word
RECURSIVE MapWords(_, _)
MapWords(words, v) == IF words = <<>> THEN <<>> ELSE <<v>> \o MapWords(Tail(words), v)

\* the names looked up for the words, in wordlist order
RECURSIVE Fqdns(_, _)
Fqdns(words, domain) ==
    IF words = <<>> THEN <<>>
    ELSE <<Fqdn(Head(words), domain)>> \o Fqdns(Tail(words), domain)

AllSettled == \A i \in DOMAIN promises : promises[i].state = "fulfilled"

\* checkSubdomains up to its await: one lookup is issued per word
CallCheckSubdomains(domain, words) ==
    /\ probeDomain' = domain
    /\ probeWords' = words
    /\ promises' = MapWords(words, Pending)
    /\ answers' = MapWords(words, NoAnswer)
    /\ settled' = <<>>
    /\ results' = <<>>
    /\ probeStatus' = "running"
    /\ dnsQueries' = dnsQueries \o Fqdns(words, domain)

UnchangedRun ==
    UNCHANGED <<argv, options, pc, exitCode, stdout, report, httpRequests, clock,
                dirs, files, fsFailure>>

\* SubResolved with the callback pushing its hit on the shared list as soon as
\* its lookup answers
SubResolvedPushes(i, addresses) ==
    /\ probeStatus = "running"
    /\ promises[i].state = "pending"
    /\ answers[i].kind = "none"
    /\ answers' = [answers EXCEPT ![i] = [kind |-> "ok", a |-> addresses]]
    /\ promises' = [promises EXCEPT ![i] = FulfilledNull]
    /\ settled' = Append(settled, i)
    /\ results' = Append(results, Hit(Fqdn(probeWords[i], probeDomain), addresses))
    /\ UNCHANGED <<probeDomain, probeWords, probeStatus, dnsQueries>>
    /\ UnchangedRun

\* dns.resolve4(fqdn) of candidate i answers with addresses: the callback
\* returns the hit
SubResolved(i, addresses) ==
    /\ probeStatus = "running"
    /\ promises[i].state = "pending"
    /\ answers[i].kind = "none"
    /\ answers' = [answers EXCEPT ![i] = [kind |-> "ok", a |-> addresses]]
    /\ promises' = [promises EXCEPT
                        ![i] = FulfilledHit(Hit(Fqdn(probeWords[i], probeDomain), addresses))]
    /\ settled' = Append(settled, i)
    /\ UNCHANGED <<probeDomain, probeWords, results, probeStatus, dnsQueries>>
    /\ UnchangedRun

\* SubFailed without the try/catch of the callback: the promise rejects and
\* Promise.all rejects with it
SubFailedRejects(i, code) ==
    /\ probeStatus = "running"
    /\ promises[i].state = "pending"
    /\ answers[i].kind = "none"
    /\ answers' = [answers EXCEPT ![i] = [kind |-> "error", error |-> code]]
    /\ promises' = [promises EXCEPT ![i] = [state |-> "rejected", hasValue |-> FALSE]]
    /\ settled' = Append(settled, i)
    /\ probeStatus' = "raised"
    /\ UNCHANGED <<probeDomain, probeWords, results, dnsQueries>>
    /\ UnchangedRun

\* dns.resolve4(fqdn) of candidate i rejects: the callback catches and returns
\* null
SubFailed(i, code) ==
    /\ probeStatus = "running"
    /\ promises[i].state = "pending"
    /\ answers[i].kind = "none"
    /\ answers' = [answers EXCEPT ![i] = [kind |-> "error", error |-> code]]
    /\ promises' = [promises EXCEPT ![i] = FulfilledNull]
    /\ settled' = Append(settled, i)
    /\ UNCHANGED <<probeDomain, probeWords, results, probeStatus, dnsQueries>>
    /\ UnchangedRun

\* the resolver never answers the lookup of candidate i: nothing in
\* checkSubdomains settles its promise
SubSilent(i) ==
    /\ probeStatus = "running"
    /\ promises[i].state = "pending"
    /\ answers[i].kind = "none"
    /\ answers' = [answers EXCEPT ![i] = [kind |-> "silent"]]
    /\ UNCHANGED <<probeDomain, probeWords, promises, settled, results, probeStatus,
                   dnsQueries>>
    /\ UnchangedRun

\* checkSubdomains after await Promise.all(promises)
ReturnCheckSubdomains ==
    /\ probeStatus = "running"
    /\ AllSettled
    /\ results' = results \o PushTruthy(promises, 1)
    /\ probeStatus' = "returned"
    /\ UNCHANGED <<probeDomain, probeWords, promises, answers, settled, dnsQueries>>

----------------------------------------------------------------------------
(* main *)

Running == 0 - 1     \* exitCode while the process has not exited

EmptyReport ==
    [target |-> Null, domain |-> Null, started_at |-> Null, http |-> NullResult,
     dns |-> NullResult, subdomains |-> <<>>, tech |-> <<>>, finished_at |-> Null]

\* process.exit(code), or the end of the process after main settles
Exit(code, line) ==
    /\ exitCode' = code
    /\ stdout' = Append(stdout, line)
    /\ pc' = "exited"

UnchangedProbe ==
    UNCHANGED <<probeDomain, probeWords, promises, answers, settled, results, probeStatus>>

\* Start with the output directory ensured before the target is checked
StartMkdirFirst ==
    /\ pc = "start"
    /\ options' = parseArgs(argv)
    /\ dirs' = dirs \cup {options'.outputDir}
    /\ IF ~Truthy(options'.target) THEN
            /\ Exit(1, "usage")
            /\ UNCHANGED <<report, httpRequests>>
       ELSE IF buildTargetUrl(options'.target) = Null THEN
            /\ Exit(1, "invalid target")
            /\ UNCHANGED <<report, httpRequests>>
       ELSE LET targetUrl == buildTargetUrl(options'.target) IN
            /\ stdout' = Append(stdout, "starting")
            /\ report' = [EmptyReport EXCEPT !.target = targetUrl,
                                             !.domain = ParseUrl(targetUrl).hostname,
                                             !.started_at = toISOString(clock)]
            /\ httpRequests' = httpRequests + 1
            /\ exitCode' = exitCode
            /\ pc' = "awaitHttp"
    /\ UNCHANGED <<argv, dnsQueries, clock, files, fsFailure>>
    /\ UnchangedProbe

\* main from its first line to the await on fetchHttp: parseArgs, the two
\* process.exit(1) checks, the report object, and the request axios.get sends
Start ==
    /\ pc = "start"
    /\ options' = parseArgs(argv)
    /\ IF ~Truthy(options'.target) THEN
            /\ Exit(1, "usage")
            /\ UNCHANGED <<report, httpRequests>>
       ELSE IF buildTargetUrl(options'.target) = Null THEN
            /\ Exit(1, "invalid target")
            /\ UNCHANGED <<report, httpRequests>>
       ELSE LET targetUrl == buildTargetUrl(options'.target) IN
            /\ stdout' = Append(stdout, "starting")
            /\ report' = [EmptyReport EXCEPT !.target = targetUrl,
                                             !.domain = ParseUrl(targetUrl).hostname,
                                             !.started_at = toISOString(clock)]
            /\ httpRequests' = httpRequests + 1
            /\ exitCode' = exitCode
            /\ pc' = "awaitHttp"
    /\ UNCHANGED <<argv, dnsQueries, clock, dirs, files, fsFailure>>
    /\ UnchangedProbe

\* main from the result of fetchHttp to the await on resolveDomain
AfterFetch(http) ==
    /\ report' = [report EXCEPT !.http = http,
                                !.tech = detectTechFromHeaders(HttpHeaders(http),
                                                               HttpSnippet(http))]
    /\ dnsQueries' = Append(dnsQueries, report.domain)
    /\ pc' = "awaitDns"
    /\ UNCHANGED <<argv, options, exitCode, stdout, httpRequests, clock, dirs, files,
                   fsFailure>>
    /\ UnchangedProbe

\* axios.get resolves with a response of any status
HttpResponse(res) ==
    /\ pc = "awaitHttp"
    /\ AfterFetch(FetchOk(res))

\* an error thrown to main, which main().catch turns into exit code 1
Throw ==
    /\ Exit(1, "fatal")
    /\ UNCHANGED <<argv, options, report, httpRequests, dnsQueries, clock, dirs, files,
                   fsFailure>>
    /\ UnchangedProbe

\* HttpFailure without the try/catch of fetchHttp
HttpFailureThrows(message) ==
    /\ pc = "awaitHttp"
    /\ Throw

\* axios.get rejects (network error, timeout, TLS error): fetchHttp catches
HttpFailure(message) ==
    /\ pc = "awaitHttp"
    /\ AfterFetch(FetchError(message))

\* the words main probes: the first MaxWords entries of SUBDOMAIN_WORDS
ProbeWords ==
    SubSeq(SUBDOMAIN_WORDS, 1,
           IF MaxWords < Len(SUBDOMAIN_WORDS) THEN MaxWords ELSE Len(SUBDOMAIN_WORDS))

\* main from the result of resolveDomain to the await in checkSubdomains
AfterResolve(dns) ==
    /\ report' = [report EXCEPT !.dns = dns]
    /\ CallCheckSubdomains(report.domain, ProbeWords)
    /\ pc' = "awaitSubs"
    /\ UNCHANGED <<argv, options, exitCode, stdout, httpRequests, clock, dirs, files,
                   fsFailure>>

\* dns.resolve4(domain) answers
DnsResolved(addresses) ==
    /\ pc = "awaitDns"
    /\ AfterResolve(DnsOk(addresses))

\* DnsFailed without the try/catch of resolveDomain
DnsFailedThrows(code) ==
    /\ pc = "awaitDns"
    /\ Throw

\* dns.resolve4(domain) rejects: resolveDomain catches
DnsFailed(code) ==
    /\ pc = "awaitDns"
    /\ AfterResolve(DnsError(code))

\* main from the return of checkSubdomains to its end: finished_at, existsSync
\* and mkdirSync, the file name, writeFileSync.  failure is the file-system
\* call that throws, which main().catch turns into exit code 1.
Finish(failure) ==
    /\ pc = "awaitSubs"
    /\ ReturnCheckSubdomains
    /\ failure = "mkdir" => options.outputDir \notin dirs
    /\ report' = [report EXCEPT !.subdomains = results',
                                !.finished_at = toISOString(clock)]
    /\ fsFailure' = failure
    /\ dirs' = IF failure = "mkdir" THEN dirs ELSE dirs \cup {options.outputDir}
    /\ IF failure = "none"
       THEN /\ files' = {f \in files : f.path # pathJoin(options.outputDir,
                                                         ReportFilename(report.domain, clock))}
                        \cup {[path |-> pathJoin(options.outputDir,
                                                 ReportFilename(report.domain, clock)),
                               content |-> report']}
            /\ Exit(0, "saved")
       ELSE /\ files' = files
            /\ Exit(1, "fatal")
    /\ UNCHANGED <<argv, options, httpRequests, clock>>

\* time passes while main is suspended on an await
Tick ==
    /\ pc \in {"awaitHttp", "awaitDns", "awaitSubs"}
    /\ clock < MaxClock
    /\ clock' = clock + 1
    /\ UNCHANGED <<argv, options, pc, exitCode, stdout, report, httpRequests,
                   dnsQueries, dirs, files, fsFailure>>
    /\ UnchangedProbe

----------------------------------------------------------------------------
(* Inputs *)

\* all sequences over S of length at most n
RECURSIVE SeqsUpTo(_, _)
SeqsUpTo(S, n) ==
    IF n = 0 THEN {<<>>}
    ELSE SeqsUpTo(S, n - 1) \cup {Append(q, x) : q \in SeqsUpTo(S, n - 1), x \in S}

\* all concatenations of at most n members of S
RECURSIVE ConcatsUpTo(_, _)
ConcatsUpTo(S, n) ==
    IF n = 0 THEN {<<>>}
    ELSE ConcatsUpTo(S, n - 1) \cup {q \o x : q \in ConcatsUpTo(S, n - 1), x \in S}

PlainTarget == <<"a", ".", "b">>
UpperTarget == <<"H", "T", "T", "P", "S", ":", "/", "/", "A", ".", "b", "/", "x">>
SpaceTarget == <<"a", " ", "b">>
OutDir == <<"o", "u", "t">>

\* values written after --timeout=
TimeoutValues ==
    {<<>>, <<"0">>, <<"5">>, <<"-", "5">>, <<"x">>, <<"1", "2", "a">>, <<"5", "=", "6">>}

\* the tokens parseArgs is applied to
ArgTokens ==
    {TimeoutFlag \o v : v \in TimeoutValues}
        \cup {OutputFlag, OutputFlag \o OutDir, VerboseFlag,
              <<"-", "-", "v", "e", "r", "b", "o", "s", "e", "=", "1">>,
              <<>>, PlainTarget, SpaceTarget}

\* the argument lists main is run on: no argument, an empty one, a host, a
\* host after a flag, a URL in upper case before a flag, a host with a space
\* in it, a scheme without a host, a flag alone, a flag and a host with a space
MainArgvs ==
    {<<>>, << <<>> >>, <<PlainTarget>>, <<OutputFlag \o OutDir, PlainTarget>>,
     <<UpperTarget, OutputFlag \o OutDir>>, <<SpaceTarget>>, <<HttpPrefix>>,
     <<OutputFlag \o OutDir>>, <<OutputFlag \o OutDir, SpaceTarget>>}

EmptyHeaders == [n \in {} |-> <<>>]

NginxValue == <<"n", "g", "i", "n", "x">>
PhpValue == <<"P", "H", "P">>
SidCookie == <<"s", "i", "d", "=", "1", ";", " ", "P", "a", "t", "h", "=", "/">>
OtherCookie == <<"b", "=", "2">>

\* header objects: every combination of an absent, empty or set server header,
\* an absent or set x-powered-by header, and an absent set-cookie header, one
\* given as a string, or one given as the non-empty array Node builds
HeaderSets ==
    {s @@ x @@ c :
        s \in {EmptyHeaders, "server" :> <<>>, "server" :> NginxValue},
        x \in {EmptyHeaders, "x-powered-by" :> PhpValue},
        c \in {EmptyHeaders,
               "set-cookie" :> [isArray |-> FALSE, v |-> SidCookie],
               "set-cookie" :> [isArray |-> TRUE, v |-> <<OtherCookie, SidCookie>>]}}

BodyFragments ==
    {<<"P", "o", "w", "e", "r", "e", "d", " ", "b", "y", " ", "W", "o", "r", "d", "P", "r", "e", "s", "s">>,
     <<"/", "w", "p", "-", "c", "o", "n", "t", "e", "n", "t", "/">>,
     <<"N", "G", "I", "N", "X">>,
     <<"c", "l", "o", "u", "d", "f", "l", "a", "r", "e">>,
     <<"J", "o", "o", "m", "l", "a", "!">>,
     <<"d", "r", "u", "p", "a">>,
     <<"l", " ">>}

Bodies == ConcatsUpTo(BodyFragments, MaxBodyParts)

\* the responses the fingerprinter is applied to
TechResponses ==
    {[status |-> 200, statusText |-> "OK", headers |-> h,
      data |-> [isString |-> TRUE, text |-> b]] : h \in HeaderSets, b \in Bodies}
        \cup {[status |-> 200, statusText |-> "OK", headers |-> h,
               data |-> [isString |-> FALSE, text |-> <<>>]] : h \in HeaderSets}

\* the responses a run of main receives
MainResponses ==
    {[status |-> 200, statusText |-> "OK",
      headers |-> ("server" :> NginxValue),
      data |-> [isString |-> TRUE,
                text |-> <<"W", "o", "r", "d", "P", "r", "e", "s", "s", " ", "n", "g", "i", "n", "x">>]],
     [status |-> 404, statusText |-> "Not Found", headers |-> EmptyHeaders,
      data |-> [isString |-> FALSE, text |-> <<>>]]}

FetchErrors == {"timeout of 8000ms exceeded", "certificate has expired"}
DnsErrors == {"ENOTFOUND"}
DomainAddresses == {<<"192.0.2.1">>}
SubAddresses == {<<"192.0.2.1">>, <<"192.0.2.2", "192.0.2.3">>}

ProbeDomains == {PlainTarget, <<"c", ".", "d">>}
Wordlists == SeqsUpTo({SUBDOMAIN_WORDS[1], SUBDOMAIN_WORDS[2]}, MaxWords)

----------------------------------------------------------------------------
(* Specifications *)

Quiet ==
    /\ options = DefaultOptions
    /\ exitCode = Running
    /\ stdout = <<>>
    /\ httpRequests = 0
    /\ dnsQueries = <<>>
    /\ clock = 0
    /\ files = {}
    /\ fsFailure = "none"
    /\ probeDomain = Null
    /\ probeWords = <<>>
    /\ promises = <<>>
    /\ answers = <<>>
    /\ settled = <<>>
    /\ results = <<>>
    /\ probeStatus = "idle"

\* a run of the process
Init ==
    /\ argv \in MainArgvs
    /\ pc = "start"
    /\ report = EmptyReport
    /\ dirs \in {{DEFAULT_OUTPUT_DIR}, {DEFAULT_OUTPUT_DIR, OutDir}}
    /\ Quiet

Next ==
    \/ Start
    \/ \E res \in MainResponses : HttpResponse(res)
    \/ \E m \in FetchErrors : HttpFailure(m)
    \/ \E a \in DomainAddresses : DnsResolved(a)
    \/ \E c \in DnsErrors : DnsFailed(c)
    \/ \E i \in DOMAIN promises, a \in SubAddresses : SubResolved(i, a)
    \/ \E i \in DOMAIN promises, c \in DnsErrors : SubFailed(i, c)
    \/ \E i \in DOMAIN promises : SubSilent(i)
    \/ \E f \in {"none", "mkdir", "write"} : Finish(f)
    \/ Tick

Spec == Init /\ [][Next]_vars

\* the steps that can follow the lookups checkSubdomains issued
AfterLookups ==
    \/ \E i \in DOMAIN promises, a \in SubAddresses : SubResolved(i, a)
    \/ \E i \in DOMAIN promises, c \in DnsErrors : SubFailed(i, c)
    \/ \E i \in DOMAIN promises : SubSilent(i)
    \/ \E f \in {"none", "mkdir", "write"} : Finish(f)
    \/ Tick

\* the event loop runs the continuation of main as soon as Promise.all has
\* settled, and the resolver and the clock do not stop while they have
\* something to do
FairSpec == Spec /\ WF_vars(AfterLookups)

\* parseArgs applied to an argument list
ApplyParseArgs ==
    /\ pc = "args"
    /\ options' = parseArgs(argv)
    /\ pc' = "args done"
    /\ UNCHANGED <<argv, exitCode, stdout, report, httpRequests, dnsQueries, clock,
                   dirs, files, fsFailure>>
    /\ UnchangedProbe

InitArgs ==
    /\ argv \in SeqsUpTo(ArgTokens, MaxArgs)
    /\ pc = "args"
    /\ report = EmptyReport
    /\ dirs = {DEFAULT_OUTPUT_DIR}
    /\ Quiet

SpecArgs == InitArgs /\ [][ApplyParseArgs]_vars

\* detectTechFromHeaders applied to the result of a fetch, as main applies it,
\* and applied again
ApplyDetectTech ==
    /\ pc \in {"tech", "tech once"}
    /\ report' = [report EXCEPT !.tech = detectTechFromHeaders(HttpHeaders(report.http),
                                                               HttpSnippet(report.http))]
    /\ pc' = IF pc = "tech" THEN "tech once" ELSE "tech twice"
    /\ UNCHANGED <<argv, options, exitCode, stdout, httpRequests, dnsQueries, clock,
                   dirs, files, fsFailure>>
    /\ UnchangedProbe

InitTech ==
    /\ argv = <<>>
    /\ pc = "tech"
    /\ report \in {[EmptyReport EXCEPT !.http = h] :
                        h \in {FetchOk(res) : res \in TechResponses}
                                \cup {FetchError(m) : m \in FetchErrors}}
    /\ dirs = {DEFAULT_OUTPUT_DIR}
    /\ Quiet

SpecTech == InitTech /\ [][ApplyDetectTech]_vars

\* checkSubdomains called on a domain and a wordlist
ApplyCheckSubdomains ==
    /\ pc = "probe"
    /\ \E d \in ProbeDomains, w \in Wordlists : CallCheckSubdomains(d, w)
    /\ pc' = "probe await"
    /\ UNCHANGED <<argv, options, exitCode, stdout, report, httpRequests, clock, dirs,
                   files, fsFailure>>

ProbeReturns ==
    /\ pc = "probe await"
    /\ ReturnCheckSubdomains
    /\ pc' = "probe done"
    /\ UNCHANGED <<argv, options, exitCode, stdout, report, httpRequests, clock, dirs,
                   files, fsFailure>>

InitProbe ==
    /\ argv = <<>>
    /\ pc = "probe"
    /\ report = EmptyReport
    /\ dirs = {DEFAULT_OUTPUT_DIR}
    /\ Quiet

NextProbe ==
    \/ ApplyCheckSubdomains
    \/ \E i \in DOMAIN promises, a \in SubAddresses : SubResolved(i, a)
    \/ \E i \in DOMAIN promises, c \in DnsErrors : SubFailed(i, c)
    \/ \E i \in DOMAIN promises : SubSilent(i)
    \/ ProbeReturns

SpecProbe == InitProbe /\ [][NextProbe]_vars

----------------------------------------------------------------------------
(* Claims *)

\* C1: the process exits with code 1 when the target is missing, when
\* buildTargetUrl yields no URL, or when mkdirSync or writeFileSync throws, and
\* with code 0 in every other run that ends, whatever the fetch and the
\* lookups did; it has no exit code before it ends.
C1_ExitCode ==
    /\ pc # "exited" => exitCode = Running
    /\ pc = "exited" =>
        exitCode = IF \/ ~Truthy(options.target)
                      \/ buildTargetUrl(options.target) = Null
                      \/ fsFailure # "none"
                   THEN 1 ELSE 0

\* a run that ends with code 0 although the fetch, the domain lookup and every
\* subdomain lookup failed
C1_AllFailedExitZero ==
    /\ pc = "exited" /\ exitCode = 0
    /\ report.http.kind = "error" /\ report.dns.kind = "error"
    /\ answers # <<>> /\ \A i \in DOMAIN answers : answers[i].kind = "error"

\* C2: the step that ends a run with the usage or the invalid-target message
\* starts from the initial state and writes no file, creates no directory and
\* has issued no HTTP request and no DNS lookup.
C2_ArgumentErrorsHaveNoEffect ==
    [][(pc' = "exited" /\ (~Truthy(options'.target) \/ buildTargetUrl(options'.target) = Null))
        => /\ pc = "start"
           /\ files = {} /\ files' = {}
           /\ dirs' = dirs
           /\ httpRequests' = 0
           /\ dnsQueries' = <<>>]_vars

\* a run ended by an invalid target whose output directory does not exist
C2_InvalidTargetNoDirectory ==
    /\ pc = "exited" /\ stdout = <<"invalid target">> /\ exitCode = 1
    /\ options.outputDir \notin dirs
    /\ files = {} /\ httpRequests = 0 /\ dnsQueries = <<>>

\* C3: a failed fetch or a failed domain lookup is recorded as an error string
\* in the report and never thrown to main (main fails only on a file-system
\* error); a run in which one failed still issued the domain lookup and every
\* subdomain lookup before it ended, and unless the file system failed it
\* wrote exactly one file, holding the recorded errors; no file exists before
\* checkSubdomains has returned.
C3_NetworkFailureRecorded ==
    /\ report.http.kind = "error" => report.http.error \in FetchErrors
    /\ report.dns.kind = "error" => report.dns.error \in DnsErrors
    /\ (\E k \in DOMAIN stdout : stdout[k] = "fatal") => fsFailure # "none"
    /\ pc \in {"awaitDns", "awaitSubs", "exited"} /\ Truthy(report.target)
            => report.http.kind # "null"
    /\ files # {} => pc = "exited" /\ probeStatus = "returned"
    /\ (pc = "exited" /\ Truthy(report.target)) =>
            /\ report.http.kind # "null" /\ report.dns.kind # "null"
            /\ report.tech = detectTechFromHeaders(HttpHeaders(report.http),
                                                   HttpSnippet(report.http))
            /\ probeStatus = "returned"
            /\ dnsQueries = <<report.domain>> \o Fqdns(probeWords, report.domain)
            /\ fsFailure = "none" =>
                    /\ Cardinality(files) = 1
                    /\ \A f \in files : f.content = report

\* a run whose fetch failed on the certificate and that wrote its one file
C3_FailedFetchReportWritten ==
    /\ pc = "exited" /\ exitCode = 0
    /\ Cardinality(files) = 1
    /\ \A f \in files : /\ f.content.http = FetchError("certificate has expired")
                        /\ f.content.dns.kind = "ok"
                        /\ f.content.tech = <<>>

\* C4: once checkSubdomains has issued its lookups it eventually returns and
\* the run eventually ends, although a candidate's lookup is never answered.
C4_ProbeEventuallyJoins == (probeStatus = "running") ~> (pc = "exited")

\* the number of candidates whose lookup answered with the hit h
AnsweredWith(h) ==
    Cardinality({i \in DOMAIN answers :
                    /\ answers[i].kind = "ok"
                    /\ Hit(Fqdn(probeWords[i], probeDomain), answers[i].a) = h})

\* C5: checkSubdomains never raises and no promise of a candidate rejects;
\* when it has returned, each hit occurs in the result as many times as there
\* are candidates that resolved to it, so a failed candidate contributes
\* nothing and the result is empty when none resolved.
C5_OnlySuccessesCollected ==
    /\ probeStatus # "raised"
    /\ \A i \in DOMAIN promises : promises[i].state # "rejected"
    /\ probeStatus = "returned" =>
        /\ \A k \in DOMAIN results :
                Cardinality({j \in DOMAIN results : results[j] = results[k]})
                    = AnsweredWith(results[k])
        /\ \A i \in DOMAIN answers :
                answers[i].kind = "ok" =>
                    \E k \in DOMAIN results :
                        results[k] = Hit(Fqdn(probeWords[i], probeDomain), answers[i].a)
        /\ (\A i \in DOMAIN answers : answers[i].kind # "ok") => results = <<>>

\* checkSubdomains has returned one hit for two candidates, one of which failed
C5_OneOfTwoResolved ==
    /\ pc = "probe done" /\ probeStatus = "returned"
    /\ Len(probeWords) = 2 /\ Len(results) = 1
    /\ \E i \in DOMAIN answers : answers[i].kind = "error"

\* the candidates that resolved
Resolved == {i \in DOMAIN answers : answers[i].kind = "ok"}

\* C10: the shared list stays empty while lookups are outstanding, and the
\* list checkSubdomains returns holds the hits of the resolved candidates in
\* wordlist order: its entries are the hits of strictly increasing wordlist
\* positions, whatever the order in which the promises settled.
C10_WordlistOrder ==
    /\ probeStatus = "running" => results = <<>>
    /\ probeStatus = "returned" =>
        /\ Len(results) = Cardinality(Resolved)
        /\ \E f \in [DOMAIN results -> DOMAIN answers] :
            /\ \A j, k \in DOMAIN results : j < k => f[j] < f[k]
            /\ \A k \in DOMAIN results :
                    /\ f[k] \in Resolved
                    /\ results[k] = Hit(Fqdn(probeWords[f[k]], probeDomain), answers[f[k]].a)

\* two different candidates resolved, the second one first, and the first
\* one's hit is first in the result
C10_SettledInReverse ==
    /\ pc = "probe done"
    /\ settled = <<2, 1>>
    /\ probeWords[1] # probeWords[2]
    /\ Len(results) = 2
    /\ results[1].subdomain = Fqdn(probeWords[1], probeDomain)
    /\ results[2].subdomain = Fqdn(probeWords[2], probeDomain)

\* the rule, 1 to 8 in declaration order, that emits the label; 0 if none does
RuleOf(label) ==
    IF startsWith(label, ServerLabel) THEN 1
    ELSE IF startsWith(label, PoweredByLabel) THEN 2
    ELSE IF startsWith(label, CookiesLabel) THEN 3
    ELSE IF label = WordPress THEN 4
    ELSE IF label = NginxBody THEN 5
    ELSE IF label = CloudflareBody THEN 6
    ELSE IF label = Joomla THEN 7
    ELSE IF label = Drupal THEN 8
    ELSE 0

\* the condition of rule r on the result of a fetch: a header rule matches a
\* header whose value is not empty, a body rule a snippet that contains the
\* signature in any case
RuleMatches(r, http) ==
    /\ http.kind = "ok"
    /\ LET has(name) == name \in DOMAIN http.headers
           body == toLowerCase(http.contentSnippet)
       IN  CASE r = 1 -> has("server") /\ http.headers["server"] # <<>>
             [] r = 2 -> has("x-powered-by") /\ http.headers["x-powered-by"] # <<>>
             [] r = 3 -> has("set-cookie")
             [] r = 4 -> includes(body, WpContentSig) \/ includes(body, WordpressSig)
             [] r = 5 -> includes(body, NginxSig)
             [] r = 6 -> includes(body, CloudflareSig)
             [] r = 7 -> includes(body, JoomlaSig)
             [] r = 8 -> includes(body, DrupalSig)

\* C6: after one call and after a second call on the same fetch result, the
\* list holds a label of rule r exactly when rule r matches, every label is
\* one of the eight rules', and the labels stand in strictly increasing rule
\* order, so that none occurs twice; the header labels carry the header values.
C6_AllMatchingRulesInOrder ==
    pc \in {"tech once", "tech twice"} =>
        /\ \A r \in 1..8 :
                RuleMatches(r, report.http)
                    <=> \E k \in DOMAIN report.tech : RuleOf(report.tech[k]) = r
        /\ \A k \in DOMAIN report.tech : RuleOf(report.tech[k]) \in 1..8
        /\ \A j, k \in DOMAIN report.tech :
                j < k => RuleOf(report.tech[j]) < RuleOf(report.tech[k])
        /\ \A k \in DOMAIN report.tech :
                /\ RuleOf(report.tech[k]) = 1
                        => report.tech[k] = ServerLabel \o report.http.headers["server"]
                /\ RuleOf(report.tech[k]) = 2
                        => report.tech[k] = PoweredByLabel \o report.http.headers["x-powered-by"]

\* a second call on a response that matches the three header rules and two
\* body rules
C6_FiveLabels ==
    /\ pc = "tech twice"
    /\ Len(report.tech) = 5
    /\ report.tech[3] = CookiesLabel \o <<"b", "=", "2">>
    /\ report.tech[4] = NginxBody
    /\ report.tech[5] = CloudflareBody

\* C7: the time stamp in the name of the file written is the instant recorded
\* as started_at, with ':' and '.' replaced by '-'.
C7_StartTimeInFileName ==
    \A f \in files :
        f.path = pathJoin(options.outputDir,
                          ReportPrefix \o safeFilename(f.content.domain) \o <<"-">>
                              \o replaceAll(f.content.started_at, {":", "."}, "-")
                              \o ReportSuffix)

\* the values of the --timeout= arguments, in order
RECURSIVE TimeoutArgs(_)
TimeoutArgs(args) ==
    IF args = <<>> THEN <<>>
    ELSE (IF startsWith(Head(args), TimeoutFlag)
          THEN <<SubSeq(Head(args), Len(TimeoutFlag) + 1, Len(Head(args)))>> ELSE <<>>)
            \o TimeoutArgs(Tail(args))

\* C8: the timeout parseArgs returns is an integer greater than 0, and it is
\* the default when there is no --timeout argument or the last one does not
\* parse as a positive integer.
C8_TimeoutPositive ==
    pc = "args done" =>
        /\ options.timeout \in Nat \ {0}
        /\ LET t == TimeoutArgs(argv)
               last == parseInt(split(t[Len(t)], "=")[1])
           IN  (t = <<>> \/ last.nan \/ last.n <= 0) => options.timeout = DEFAULT_TIMEOUT

Recognised(arg) ==
    startsWith(arg, TimeoutFlag) \/ startsWith(arg, OutputFlag) \/ arg = VerboseFlag

\* C9: the target parseArgs returns is the first argument that is not of a
\* recognised form, and null when there is none.
C9_FirstUnrecognisedIsTarget ==
    pc = "args done" =>
        LET free == {i \in DOMAIN argv : ~Recognised(argv[i])}
        IN  options.target =
                IF free = {} THEN Null
                ELSE argv[CHOOSE i \in free : \A j \in free : i <= j]

====
